---------------------------- MODULE Spec2Model ----------------------------
(***************************************************************************)
(* A model of scholar.py: the query and settings model (ScholarQuery,      *)
(* SearchScholarQuery, ClusterScholarQuery, ScholarSettings) and the       *)
(* session orchestrator (ScholarQuerier).                                  *)
(*                                                                         *)
(* Python strings are sequences of one-character strings, so that         *)
(* quoting, splitting and integer conversion are computed as the code     *)
(* computes them.  Python values are tagged records [t, n, s].             *)
(***************************************************************************)
EXTENDS Integers, Sequences, FiniteSets, TLC

VARIABLES
    query,      \* the ScholarQuery object under construction (or NoObject)
    ncalls,     \* number of setter calls made on `query` since construction
    settings,   \* the ScholarSettings object
    querier,    \* the ScholarQuerier object: articles, query, settings
    call,       \* the last operation called, with its arguments
    ret,        \* what the last operation returned or raised
    trace,      \* the HTTP exchanges of the last operation, in order
    applied,    \* how the last apply_settings ended
    events,     \* what the last send_query or main did, in order: parser
                \* callbacks, citation requests, appends, printed messages
    record      \* a ScholarArticle whose fields are assigned and deleted

vars == <<query, ncalls, settings, querier, call, ret, trace, applied, events, record>>

----------------------------------------------------------------------------
(* Bounds of the model. *)

\* setter calls explored on one query object
MaxSetterCalls == 2

\* result blocks in one response document
MaxBlocks == 2

\* anchors in one links row, the import link apart
MaxLinks == 2

\* arguments in the query string of one URL
MaxArgs == 2

----------------------------------------------------------------------------
(* Python values. *)

None == [t |-> "none", n |-> 0, s |-> <<>>]
IntV(n) == [t |-> "int", n |-> n, s |-> <<>>]
StrV(s) == [t |-> "str", n |-> 0, s |-> s]
BoolV(b) == [t |-> "bool", n |-> IF b THEN 1 ELSE 0, s |-> <<>>]

\* bool(x) for the values the model uses
Truthy(x) ==
    CASE x.t = "none" -> FALSE
      [] x.t = "int"  -> x.n # 0
      [] x.t = "str"  -> x.s # <<>>
      [] x.t = "bool" -> x.n # 0

\* x or d
Or(x, d) == IF Truthy(x) THEN x ELSE d

\* a return value / a raised exception
Return(x) == [kind |-> "ok", val |-> x]
Raise(e) == [kind |-> e, val |-> None]

----------------------------------------------------------------------------
(* Python string methods, on sequences of characters. *)

Digits == <<"0", "1", "2", "3", "4", "5", "6", "7", "8", "9">>

IsDigit(c) == \E i \in 1..Len(Digits) : Digits[i] = c

DigitVal(c) == (CHOOSE i \in 1..Len(Digits) : Digits[i] = c) - 1

IsSpace(c) == c = " "

RECURSIVE Cat(_)
Cat(ss) == IF ss = <<>> THEN <<>> ELSE Head(ss) \o Cat(Tail(ss))

StartsWith(s, p) == Len(s) >= Len(p) /\ SubSeq(s, 1, Len(p)) = p

\* s.find(c): the 0-based index of the first c, -1 when there is none
Find(s, c) ==
    IF \E i \in 1..Len(s) : s[i] = c
    THEN (CHOOSE i \in 1..Len(s) : s[i] = c /\ \A j \in 1..(i-1) : s[j] # c) - 1
    ELSE -1

\* s.split(c): always at least one part
RECURSIVE Split(_, _)
Split(s, c) ==
    LET i == Find(s, c)
    IN  IF i < 0 THEN <<s>>
        ELSE <<SubSeq(s, 1, i)>> \o Split(SubSeq(s, i + 2, Len(s)), c)

\* s.split(c, 1)
Split1(s, c) ==
    LET i == Find(s, c)
    IN  IF i < 0 THEN <<s>>
        ELSE <<SubSeq(s, 1, i), SubSeq(s, i + 2, Len(s))>>

RECURSIVE LStrip(_)
LStrip(s) == IF s # <<>> /\ IsSpace(Head(s)) THEN LStrip(Tail(s)) ELSE s

RECURSIVE RStrip(_)
RStrip(s) ==
    IF s # <<>> /\ IsSpace(s[Len(s)]) THEN RStrip(SubSeq(s, 1, Len(s) - 1)) ELSE s

\* s.strip()
Strip(s) == RStrip(LStrip(s))

\* sep.join(parts)
RECURSIVE Join(_, _)
Join(sep, parts) ==
    IF parts = <<>> THEN <<>>
    ELSE IF Len(parts) = 1 THEN parts[1]
    ELSE parts[1] \o sep \o Join(sep, Tail(parts))

\* str(n) for a natural number
RECURSIVE NatStr(_)
NatStr(n) ==
    IF n < 10 THEN <<Digits[n + 1]>> ELSE NatStr(n \div 10) \o <<Digits[(n % 10) + 1]>>

\* str(n) for an integer
IntStr(n) == IF n < 0 THEN <<"-">> \o NatStr(-n) ELSE NatStr(n)

RECURSIVE DigitsVal(_, _)
DigitsVal(s, acc) ==
    IF s = <<>> THEN acc ELSE DigitsVal(Tail(s), 10 * acc + DigitVal(Head(s)))

\* int(s) for a string: surrounding whitespace and one sign are accepted,
\* then a non-empty run of digits; anything else is a ValueError.
ParseInt(s) ==
    LET b == Strip(s)
        signed == b # <<>> /\ (b[1] = "-" \/ b[1] = "+")
        d == IF signed THEN Tail(b) ELSE b
        ok == d # <<>> /\ \A i \in 1..Len(d) : IsDigit(d[i])
    IN  IF ~ok THEN [ok |-> FALSE, v |-> 0]
        ELSE [ok |-> TRUE,
              v |-> IF signed /\ b[1] = "-" THEN 0 - DigitsVal(d, 0) ELSE DigitsVal(d, 0)]

\* int(x): the value, or the exception int() raises
PyInt(x) ==
    CASE x.t = "int"  -> Return(IntV(x.n))
      [] x.t = "bool" -> Return(IntV(x.n))
      [] x.t = "str"  -> IF ParseInt(x.s).ok THEN Return(IntV(ParseInt(x.s).v))
                         ELSE Raise("ValueError")
      [] x.t = "none" -> Raise("TypeError")

\* encode(s): str(s) in Python 3
encode(x) ==
    CASE x.t = "str"  -> x.s
      [] x.t = "int"  -> IntStr(x.n)
      [] x.t = "none" -> <<"N", "o", "n", "e">>
      [] x.t = "bool" -> IF x.n # 0 THEN <<"T", "r", "u", "e">> ELSE <<"F", "a", "l", "s", "e">>

\* urllib quote() of one character: letters, digits and _ . - ~ / are kept,
\* every other character becomes %XX
QuoteChar(c) ==
    CASE c = " "  -> <<"%", "2", "0">>
      [] c = "\"" -> <<"%", "2", "2">>
      [] c = "%"  -> <<"%", "2", "5">>
      [] c = "&"  -> <<"%", "2", "6">>
      [] c = "+"  -> <<"%", "2", "B">>
      [] c = ","  -> <<"%", "2", "C">>
      [] c = ":"  -> <<"%", "3", "A">>
      [] c = "="  -> <<"%", "3", "D">>
      [] c = "?"  -> <<"%", "3", "F">>
      [] OTHER    -> <<c>>

\* quote(s)
RECURSIVE quote(_)
quote(s) == IF s = <<>> THEN <<>> ELSE QuoteChar(Head(s)) \o quote(Tail(s))

----------------------------------------------------------------------------
(* ScholarConf, ScholarUtils *)

MAX_PAGE_RESULTS == 20

SCHOLAR_SITE ==
    <<"h","t","t","p",":","/","/","s","c","h","o","l","a","r",".",
      "g","o","o","g","l","e",".","c","o","m">>

\* ScholarUtils.ensure_int: only ValueError becomes FormatError
ensure_int(arg) ==
    LET r == PyInt(arg)
    IN  IF r.kind = "ValueError" THEN Raise("FormatError") ELSE r

----------------------------------------------------------------------------
(* ScholarQuery, SearchScholarQuery, ClusterScholarQuery *)

NoObject == [kind |-> "none"]

\* SearchScholarQuery.__init__
NewSearch ==
    [kind |-> "search",
     num_results |-> IntV(MAX_PAGE_RESULTS),
     words |-> None, words_some |-> None, words_none |-> None,
     phrase |-> None, scope_title |-> FALSE,
     author |-> None, pub |-> None,
     timeframe |-> <<None, None>>,
     include_patents |-> TRUE, include_citations |-> TRUE,
     attrs |-> [num_results |-> IntV(0)]]

\* ClusterScholarQuery.__init__, before set_cluster
NewCluster ==
    [kind |-> "cluster",
     num_results |-> IntV(MAX_PAGE_RESULTS),
     cluster |-> None,
     attrs |-> [num_results |-> IntV(0)]]

\* ScholarQuery._parenthesize_phrases
ParenthesizePhrase(phrase) ==
    LET p == Strip(phrase)
    IN  IF Find(p, " ") > 0 THEN <<"\"">> \o p \o <<"\"">> ELSE p

_parenthesize_phrases(q) ==
    IF Find(q, ",") < 0 THEN q
    ELSE LET parts == Split(q, ",")
         IN  Join(<<" ">>, [i \in 1..Len(parts) |-> ParenthesizePhrase(parts[i])])

\* faulty variant: the same test written with truth values instead of `is None`
NoCriteriaTruthy(q) ==
    /\ ~Truthy(q.words) /\ ~Truthy(q.words_some)
    /\ ~Truthy(q.words_none) /\ ~Truthy(q.phrase)
    /\ ~Truthy(q.author) /\ ~Truthy(q.pub)
    /\ ~Truthy(q.timeframe[1]) /\ ~Truthy(q.timeframe[2])

\* the test that opens SearchScholarQuery.get_url
NoCriteria(q) ==
    /\ q.words = None /\ q.words_some = None
    /\ q.words_none = None /\ q.phrase = None
    /\ q.author = None /\ q.pub = None
    /\ q.timeframe[1] = None /\ q.timeframe[2] = None

\* urlargs of SearchScholarQuery.get_url, before quoting
SearchUrlArgs(q) ==
    LET words_some == IF Truthy(q.words_some)
                      THEN StrV(_parenthesize_phrases(q.words_some.s)) ELSE None
        words_none == IF Truthy(q.words_none)
                      THEN StrV(_parenthesize_phrases(q.words_none.s)) ELSE None
    IN  [words      |-> Or(q.words, StrV(<<>>)),
         words_some |-> Or(words_some, StrV(<<>>)),
         words_none |-> Or(words_none, StrV(<<>>)),
         phrase     |-> Or(q.phrase, StrV(<<>>)),
         scope      |-> StrV(IF q.scope_title THEN <<"t","i","t","l","e">> ELSE <<"a","n","y">>),
         authors    |-> Or(q.author, StrV(<<>>)),
         pub        |-> Or(q.pub, StrV(<<>>)),
         ylo        |-> Or(q.timeframe[1], StrV(<<>>)),
         yhi        |-> Or(q.timeframe[2], StrV(<<>>)),
         patents    |-> StrV(IF q.include_patents THEN <<"0">> ELSE <<"1">>),
         citations  |-> StrV(IF q.include_citations THEN <<"0">> ELSE <<"1">>),
         num        |-> Or(q.num_results, IntV(MAX_PAGE_RESULTS))]

\* SCHOLAR_QUERY_URL % urlargs, every argument quote(encode(val))
SCHOLAR_QUERY_URL(a) ==
    Cat(<<SCHOLAR_SITE, <<"/","s","c","h","o","l","a","r","?">>,
          <<"a","s","_","q","=">>, quote(encode(a.words)),
          <<"&","a","s","_","e","p","q","=">>, quote(encode(a.phrase)),
          <<"&","a","s","_","o","q","=">>, quote(encode(a.words_some)),
          <<"&","a","s","_","e","q","=">>, quote(encode(a.words_none)),
          <<"&","a","s","_","o","c","c","t","=">>, quote(encode(a.scope)),
          <<"&","a","s","_","s","a","u","t","h","o","r","s","=">>, quote(encode(a.authors)),
          <<"&","a","s","_","p","u","b","l","i","c","a","t","i","o","n","=">>,
              quote(encode(a.pub)),
          <<"&","a","s","_","y","l","o","=">>, quote(encode(a.ylo)),
          <<"&","a","s","_","y","h","i","=">>, quote(encode(a.yhi)),
          <<"&","a","s","_","s","d","t","=">>, quote(encode(a.patents)), <<"%","2","C","5">>,
          <<"&","a","s","_","v","i","s","=">>, quote(encode(a.citations)),
          <<"&","b","t","n","G","=","&","h","l","=","e","n">>,
          <<"&","n","u","m","=">>, quote(encode(a.num))>>)

\* SearchScholarQuery.get_url
SearchScholarQuery_get_url(q) ==
    IF NoCriteria(q) THEN Raise("QueryArgumentError")
    ELSE Return(StrV(SCHOLAR_QUERY_URL(SearchUrlArgs(q))))

\* SCHOLAR_CLUSTER_URL % urlargs
SCHOLAR_CLUSTER_URL(a) ==
    Cat(<<SCHOLAR_SITE, <<"/","s","c","h","o","l","a","r","?">>,
          <<"c","l","u","s","t","e","r","=">>, quote(encode(a.cluster)),
          <<"&","n","u","m","=">>, quote(encode(a.num))>>)

\* ClusterScholarQuery.get_url
ClusterScholarQuery_get_url(q) ==
    IF q.cluster = None THEN Raise("QueryArgumentError")
    ELSE Return(StrV(SCHOLAR_CLUSTER_URL(
             [cluster |-> q.cluster,
              num |-> Or(q.num_results, IntV(MAX_PAGE_RESULTS))])))

\* query.get_url() of either variant
get_url(q) == IF q.kind = "search" THEN SearchScholarQuery_get_url(q) ELSE ClusterScholarQuery_get_url(q)

----------------------------------------------------------------------------
(* The arguments the query operations are called with. *)

TextArgs ==
    { StrV(<<>>),
      StrV(<<"a">>),
      StrV(<<"a", " ", "b">>),
      StrV(<<"a", "&", "b", "=", "c">>) }

PhraseListArgs ==
    { StrV(<<>>),
      StrV(<<"a", " ", "b">>),
      StrV(<<"a", " ", "b", ",", "c">>),
      StrV(<<" ", "a", " ", ",", "b", " ", "c">>),
      StrV(<<"a", "&", "b", ",">>) }

YearArgs ==
    { None, StrV(<<"0">>), StrV(<<"1", "9", "9", "9">>), StrV(<<"x">>), IntV(2001) }

NumArgs ==
    { IntV(0), IntV(5), IntV(20), IntV(21), StrV(<<"7">>), StrV(<<"4", "0">>), StrV(<<"x">>) }

ClusterArgs ==
    { None, StrV(<<"7">>), StrV(<<"0", "0", "7">>), StrV(<<"1", "a">>), IntV(12) }

----------------------------------------------------------------------------
(* Operations on the query object. *)

\* the call, and how many records the querier held when it was made
Called(op, args) == [op |-> op, args |-> args, had |-> Len(querier.articles)]

QueryFrame == UNCHANGED <<settings, querier, trace, applied, events, record>>

\* SearchScholarQuery()
SearchInit ==
    /\ query' = NewSearch
    /\ ncalls' = 0
    /\ call' = Called("SearchScholarQuery", <<>>)
    /\ ret' = Return(None)
    /\ QueryFrame

\* ClusterScholarQuery(cluster): the constructor calls set_cluster, and an
\* exception there leaves no object
ClusterInit(cluster) ==
    LET r == ensure_int(cluster)
    IN  /\ query' = IF r.kind = "ok" THEN [NewCluster EXCEPT !.cluster = r.val]
                    ELSE NoObject
        /\ ncalls' = 0
        /\ call' = Called("ClusterScholarQuery", <<cluster>>)
        /\ ret' = IF r.kind = "ok" THEN Return(None) ELSE r
        /\ QueryFrame

\* ClusterScholarQuery.set_cluster
set_cluster(cluster) ==
    LET r == ensure_int(cluster)
    IN  /\ query.kind = "cluster"
        /\ ncalls < MaxSetterCalls
        /\ query' = IF r.kind = "ok" THEN [query EXCEPT !.cluster = r.val] ELSE query
        /\ ncalls' = ncalls + 1
        /\ call' = Called("set_cluster", <<cluster>>)
        /\ ret' = IF r.kind = "ok" THEN Return(None) ELSE r
        /\ QueryFrame

\* ScholarQuery.set_num_page_results
set_num_page_results(n) ==
    LET r == ensure_int(n)
    IN  /\ query.kind # "none"
        /\ ncalls < MaxSetterCalls
        /\ query' = IF r.kind = "ok" THEN [query EXCEPT !.num_results = r.val] ELSE query
        /\ ncalls' = ncalls + 1
        /\ call' = Called("set_num_page_results", <<n>>)
        /\ ret' = IF r.kind = "ok" THEN Return(None) ELSE r
        /\ QueryFrame

\* a setter that stores its argument as it is
PlainSet(op, field, x) ==
    /\ query.kind = "search"
    /\ ncalls < MaxSetterCalls
    /\ query' = [query EXCEPT ![field] = x]
    /\ ncalls' = ncalls + 1
    /\ call' = Called(op, <<x>>)
    /\ ret' = Return(None)
    /\ QueryFrame

set_words(w) == PlainSet("set_words", "words", w)
set_words_some(w) == PlainSet("set_words_some", "words_some", w)
set_words_none(w) == PlainSet("set_words_none", "words_none", w)
set_phrase(p) == PlainSet("set_phrase", "phrase", p)
set_author(a) == PlainSet("set_author", "author", a)
set_pub(p) == PlainSet("set_pub", "pub", p)

\* set_scope, set_include_citations, set_include_patents
FlagSet(op, field, b) ==
    /\ query.kind = "search"
    /\ ncalls < MaxSetterCalls
    /\ query' = [query EXCEPT ![field] = b]
    /\ ncalls' = ncalls + 1
    /\ call' = Called(op, <<BoolV(b)>>)
    /\ ret' = Return(None)
    /\ QueryFrame

set_scope(b) == FlagSet("set_scope", "scope_title", b)
set_include_citations(b) == FlagSet("set_include_citations", "include_citations", b)
set_include_patents(b) == FlagSet("set_include_patents", "include_patents", b)

\* SearchScholarQuery.set_timeframe
set_timeframe(start, end) ==
    LET s == IF Truthy(start) THEN ensure_int(start) ELSE Return(start)
        e == IF Truthy(end) THEN ensure_int(end) ELSE Return(end)
        r == IF s.kind # "ok" THEN s ELSE IF e.kind # "ok" THEN e ELSE Return(None)
    IN  /\ query.kind = "search"
        /\ ncalls < MaxSetterCalls
        /\ query' = IF r.kind = "ok" THEN [query EXCEPT !.timeframe = <<s.val, e.val>>]
                    ELSE query
        /\ ncalls' = ncalls + 1
        /\ call' = Called("set_timeframe", <<start, end>>)
        /\ ret' = r
        /\ QueryFrame

\* ClusterScholarQuery(cluster).get_url()
ClusterUrl(cluster) ==
    LET r == ensure_int(cluster)
        q == [NewCluster EXCEPT !.cluster = r.val]
    IN  /\ query' = IF r.kind = "ok" THEN q ELSE NoObject
        /\ ncalls' = 0
        /\ call' = Called("cluster_url", <<cluster>>)
        /\ ret' = IF r.kind = "ok" THEN ClusterScholarQuery_get_url(q) ELSE r
        /\ QueryFrame

\* query.get_url()
CallGetUrl ==
    /\ query.kind # "none"
    /\ call' = Called("get_url", <<>>)
    /\ ret' = get_url(query)
    /\ UNCHANGED <<query, ncalls>>
    /\ QueryFrame

----------------------------------------------------------------------------
(* ScholarSettings *)

CITFORM_BIBTEX == 4

\* ScholarSettings.__init__
NewSettings ==
    [citform |-> 0, per_page_results |-> MAX_PAGE_RESULTS, is_configured |-> FALSE]

\* faulty variant: upper limit one too high
CitformInvalidOffByOne(citform) == citform < 0 \/ citform > CITFORM_BIBTEX + 1

\* the range test of set_citation_format
CitformInvalid(citform) == citform < 0 \/ citform > CITFORM_BIBTEX

\* faulty variant: no clamp
ClampNone(n) == n

\* the clamp of set_per_page_results
ClampPerPage(n) == IF n < MAX_PAGE_RESULTS THEN n ELSE MAX_PAGE_RESULTS

SettingsFrame == UNCHANGED <<query, ncalls, querier, trace, applied, events, record>>

\* ScholarSettings.set_citation_format
set_citation_format(citform) ==
    LET r == ensure_int(citform)
        bad == r.kind = "ok" /\ CitformInvalid(r.val.n)
    IN  /\ settings' = IF r.kind = "ok" /\ ~bad
                       THEN [settings EXCEPT !.citform = r.val.n, !.is_configured = TRUE]
                       ELSE settings
        /\ call' = Called("set_citation_format", <<citform>>)
        /\ ret' = IF bad THEN Raise("FormatError")
                  ELSE IF r.kind = "ok" THEN Return(None) ELSE r
        /\ SettingsFrame

\* ScholarSettings.set_per_page_results
set_per_page_results(n) ==
    LET r == ensure_int(n)
    IN  /\ settings' = IF r.kind = "ok"
                       THEN [settings EXCEPT !.per_page_results = ClampPerPage(r.val.n),
                                             !.is_configured = TRUE]
                       ELSE settings
        /\ call' = Called("set_per_page_results", <<n>>)
        /\ ret' = IF r.kind = "ok" THEN Return(None) ELSE r
        /\ SettingsFrame

CitformArgs ==
    { IntV(n) : n \in -1..6 } \cup { StrV(<<"3">>), StrV(<<"9">>), StrV(<<"x">>) }

PerPageArgs ==
    { IntV(-1), IntV(0), IntV(19), IntV(20), IntV(21), IntV(40),
      StrV(<<"7">>), StrV(<<"2", "5">>), StrV(<<"x">>) }

----------------------------------------------------------------------------
(* ScholarArticle and the parser the querier uses (ScholarQuerier.Parser,  *)
(* a ScholarArticleParser120726).  A response document is its sequence of  *)
(* result blocks (div.gs_r); a block records whether it holds a div.gs_ri, *)
(* whether that holds an h3, the heading's text, the href of the           *)
(* 'Import ...' anchor of its links row (None when there is none), and the *)
(* anchors that stand before it in the links row (div.gs_fl).  A document  *)
(* also records its result-count banner (div#gs_ab_md).                    *)

\* ScholarArticle.__init__: the fields the parser fills from the heading and
\* the links row, and citation_data
NewArticle ==
    [title |-> None, url_citation |-> None, citation_data |-> None,
     num_citations |-> IntV(0), url_citations |-> None, cluster_id |-> None,
     num_versions |-> IntV(0), url_versions |-> None]

\* the keys ScholarArticle.__init__ registers, in display order
ArticleKeys ==
    <<"title", "url", "year", "num_citations", "num_versions", "cluster_id",
      "url_pdf", "url_citations", "url_versions", "url_citation", "excerpt">>

\* ScholarArticle.__init__: attrs, key -> value and ordering index (the
\* label plays no part)
NewRecord ==
    [k \in { ArticleKeys[i] : i \in 1..Len(ArticleKeys) } |->
        [val |-> IF k \in {"num_citations", "num_versions"} THEN IntV(0) ELSE None,
         idx |-> (CHOOSE i \in 1..Len(ArticleKeys) : ArticleKeys[i] = k) - 1]]

\* the index ScholarArticle.__setitem__ gives a new key: len(self.attrs)
NextIndex(attrs) == Cardinality(DOMAIN attrs)

\* ScholarArticle.__setitem__ on attrs
SetItemAttrs(attrs, key, item) ==
    IF key \in DOMAIN attrs
    THEN [attrs EXCEPT ![key].val = item]
    ELSE [k \in DOMAIN attrs \cup {key} |->
             IF k = key THEN [val |-> item, idx |-> NextIndex(attrs)] ELSE attrs[k]]

\* ScholarArticle.__delitem__ on attrs
DelItemAttrs(attrs, key) ==
    [k \in DOMAIN attrs \ {key} |-> attrs[k]]

\* ScholarArticleParser._path2url
_path2url(path) ==
    IF StartsWith(path, <<"h","t","t","p",":","/","/">>) THEN path
    ELSE IF ~StartsWith(path, <<"/">>) THEN SCHOLAR_SITE \o <<"/">> \o path
    ELSE SCHOLAR_SITE \o path

\* s.split(): the non-empty runs between whitespace
SplitWs(s) == SelectSeq(Split(s, " "), LAMBDA t : t # <<>>)

\* s.replace(c, '')
Remove(s, c) == SelectSeq(s, LAMBDA x : x # c)

\* ScholarArticleParser._as_int
_as_int(s) == IF ParseInt(s).ok THEN IntV(ParseInt(s).v) ELSE None

\* faulty variant: nothing is removed
StripNothing(arg, url) == url

\* ScholarArticleParser._strip_url_arg
_strip_url_arg(arg, url) ==
    LET parts == Split1(url, "?")
    IN  IF Len(parts) # 2 THEN url
        ELSE LET res == SelectSeq(Split(parts[2], "&"),
                                  LAMBDA part : ~StartsWith(part, arg \o <<"=">>))
             IN  parts[1] \o <<"?">> \o Join(<<"&">>, res)

\* an anchor of a links row: its href and its .string (None when the anchor
\* has no single text child)
Anchor(href, string) == [href |-> href, string |-> string]

\* tag.getText() of an anchor
AnchorText(a) == IF a.string = None THEN <<>> ELSE a.string.s

\* the anchors of a block's links row
LinksRow(block) ==
    block.links \o
    (IF block.imp = None THEN <<>>
     ELSE <<Anchor(block.imp, StrV(<<"I","m","p","o","r","t">>))>>)

\* arg[6:] of the last argument that starts with 'cites=', None when there
\* is none
LastCitesValue(ids) ==
    IF ids = <<>> THEN None ELSE StrV(SubSeq(ids[Len(ids)], 7, Len(ids[Len(ids)])))

\* the cluster id _parse_links reads off a citation-list URL
ClusterIdOf(url) ==
    LastCitesValue(SelectSeq(Split(Split1(url, "?")[2], "&"),
                             LAMBDA arg : StartsWith(arg, <<"c","i","t","e","s","=">>)))

\* the href starts with '/scholar?cites'
IsCitesLink(a) ==
    StartsWith(a.href.s, <<"/","s","c","h","o","l","a","r","?","c","i","t","e","s">>)

\* the href starts with '/scholar?cluster'
IsClusterLink(a) ==
    StartsWith(a.href.s, <<"/","s","c","h","o","l","a","r","?","c","l","u","s","t","e","r">>)

\* _parse_links, the '/scholar?cites' branch, with the stripped URL and the
\* cluster id read off it
StoreCitations(art, cited, words, url, id) ==
    [art EXCEPT
        !.num_citations = IF cited THEN _as_int(words[Len(words)]) ELSE @,
        !.url_citations = StrV(url),
        !.cluster_id = IF id = None THEN @ ELSE id]

\* _parse_links, the '/scholar?cites' branch
CitesLink(art, a) ==
    IF a.string = None THEN Raise("AttributeError")
    ELSE LET url == _strip_url_arg(<<"n","u","m">>, _path2url(a.href.s))
         IN  Return(StoreCitations(art,
                                   StartsWith(a.string.s, <<"C","i","t","e","d"," ","b","y">>),
                                   SplitWs(a.string.s), url, ClusterIdOf(url)))

\* _parse_links, the '/scholar?cluster' branch, with the words of the label
StoreVersions(art, all, words, url) ==
    IF all /\ Len(words) < 2 THEN Raise("IndexError")
    ELSE Return([art EXCEPT
                    !.num_versions = IF all THEN _as_int(words[2]) ELSE @,
                    !.url_versions = StrV(url)])

\* _parse_links, the '/scholar?cluster' branch
ClusterLink(art, a) ==
    IF a.string = None THEN Raise("AttributeError")
    ELSE StoreVersions(art, StartsWith(a.string.s, <<"A","l","l"," ">>),
                       SplitWs(a.string.s),
                       _strip_url_arg(<<"n","u","m">>, _path2url(a.href.s)))

\* _parse_links, the 'Import' branch, after the branches before it
ImportLink(r, a) ==
    IF r.kind # "ok" THEN r
    ELSE IF StartsWith(AnchorText(a), <<"I","m","p","o","r","t">>)
    THEN Return([r.val EXCEPT !.url_citation = StrV(_path2url(a.href.s))])
    ELSE r

\* _parse_links, the branches after the '/scholar?cites' one
AfterCitesLink(r, a) ==
    IF r.kind # "ok" THEN r
    ELSE ImportLink(IF IsClusterLink(a) THEN ClusterLink(r.val, a) ELSE r, a)

\* the body of the loop of ScholarArticleParser._parse_links for one
\* anchor: the article, or the exception that escapes
ParseLink(art, a) ==
    IF a.href = None THEN Return(art)
    ELSE AfterCitesLink(IF IsCitesLink(a) THEN CitesLink(art, a) ELSE Return(art), a)

\* what _parse_links does after one anchor
RECURSIVE _parse_links(_, _)
ParseLinksFrom(r, row) ==
    IF r.kind # "ok" THEN r ELSE _parse_links(r.val, row)

\* ScholarArticleParser._parse_links over the anchors of a row
_parse_links(art, row) ==
    IF row = <<>> THEN Return(art)
    ELSE ParseLinksFrom(ParseLink(art, Head(row)), Tail(row))

\* ScholarArticleParser120726._parse_article: the article, or the exception
\* that escapes (tag.h3 is None in the except branch, or _parse_links
\* raises)
_parse_article(block) ==
    IF ~block.ri THEN Return(NewArticle)
    ELSE IF ~block.h3 THEN Raise("AttributeError")
    ELSE _parse_links([NewArticle EXCEPT !.title = StrV(block.title)], LinksRow(block))

\* the result-count banner: whether div#gs_ab_md is there, and its text
\* nodes in order
Banner(found, texts) == [found |-> found, texts |-> texts]

NoBanner == Banner(FALSE, <<>>)

\* raw_text[0].split()[1]
SecondToken(words) == words[2]

\* ScholarArticleParser._parse_globals: the number handed to
\* handle_num_results, None when the callback is not invoked
_parse_globals(banner) ==
    IF ~banner.found \/ banner.texts = <<>> THEN None
    ELSE LET words == SplitWs(banner.texts[1])
         IN  IF Len(words) < 2 THEN None
             ELSE _as_int(Remove(SecondToken(words), ","))

\* ScholarQuerier.Parser.handle_num_results on the querier's query
handle_num_results(q, num_results) ==
    IF q.kind = "none" THEN q ELSE [q EXCEPT !.attrs.num_results = num_results]

\* ScholarArticleParser._clean_article
_clean_article(art) ==
    IF Truthy(art.title) THEN [art EXCEPT !.title = StrV(Strip(art.title.s))] ELSE art

----------------------------------------------------------------------------
(* ScholarQuerier *)

NoResponse == [t |-> "none"]

Exchange(url, resp) == [url |-> url, resp |-> resp]

\* the reference to the ScholarSettings object
SettingsRef == [t |-> "settings", n |-> 0, s |-> <<>>]

\* ScholarQuerier.__init__
NewQuerier == [articles |-> <<>>, query |-> NoObject, settings |-> None]

GET_SETTINGS_URL ==
    SCHOLAR_SITE \o
    <<"/","s","c","h","o","l","a","r","_","s","e","t","t","i","n","g","s","?",
      "s","c","i","i","f","h","=","1","&","h","l","=","e","n","&",
      "a","s","_","s","d","t","=","0",",","5">>

\* SET_SETTINGS_URL % urlargs
SET_SETTINGS_URL(a) ==
    Cat(<<SCHOLAR_SITE,
          <<"/","s","c","h","o","l","a","r","_","s","e","t","p","r","e","f","s","?",
            "q","=","&","s","c","i","s","i","g","=">>, encode(a.scisig),
          <<"&","i","n","s","t","s","t","a","r","t","=","0","&",
            "a","s","_","s","d","t","=","1",",","5","&",
            "a","s","_","s","d","t","p","=","&","n","u","m","=">>, encode(a.num),
          <<"&","s","c","i","s","=">>, encode(a.scis),
          encode(a.scisf),
          <<"&","h","l","=","e","n","&","l","a","n","g","=","a","l","l","&",
            "i","n","s","t","q","=","&","i","n","s","t","=",
            "5","6","9","3","6","7","3","6","0","5","4","7","4","3","4","3","3","9",
            "&","s","a","v","e","=">>>>)

\* urlargs of apply_settings
SettingsUrlArgs(s, token) ==
    [scisig |-> token,
     num    |-> IntV(s.per_page_results),
     scis   |-> StrV(IF s.citform # 0 THEN <<"y","e","s">> ELSE <<"n","o">>),
     scisf  |-> StrV(IF s.citform # 0
                     THEN <<"&","s","c","i","s","f","=">> \o IntStr(s.citform)
                     ELSE <<>>)]

\* faulty variant: the assignment left out
KeepSettings(old, new) == old

\* the assignment self.settings = settings of apply_settings
RecordSettings(old, new) == new

\* ScholarQuerier.apply_settings(arg) on settings object s, with the
\* responses the site gives to the fetch and to the submit:
\* [settings, ret, trace]
apply_settings(old, arg, s, page, submitted) ==
    IF arg = None \/ ~s.is_configured
    THEN [settings |-> old, ret |-> Return(BoolV(TRUE)), trace |-> <<>>]
    ELSE LET fetch == Exchange(GET_SETTINGS_URL, page)
             now == RecordSettings(old, arg)
         IN  IF page = NoResponse \/ ~page.form \/ ~page.input
             THEN [settings |-> now, ret |-> Return(BoolV(FALSE)), trace |-> <<fetch>>]
             ELSE IF page.value = None
             THEN [settings |-> now, ret |-> Raise("KeyError"), trace |-> <<fetch>>]
             ELSE [settings |-> now,
                   ret |-> Return(BoolV(submitted # NoResponse)),
                   trace |-> <<fetch,
                               Exchange(SET_SETTINGS_URL(SettingsUrlArgs(s, page.value)),
                                        submitted)>>]

\* faulty variant: cached citation data is not consulted
RefetchCitationData(art, resp) ==
    IF art.url_citation = None
    THEN [art |-> art, ret |-> Return(BoolV(FALSE)), trace |-> <<>>]
    ELSE IF resp = NoResponse
    THEN [art |-> art, ret |-> Return(BoolV(FALSE)),
          trace |-> <<Exchange(art.url_citation.s, resp)>>]
    ELSE [art |-> [art EXCEPT !.citation_data = resp], ret |-> Return(BoolV(TRUE)),
          trace |-> <<Exchange(art.url_citation.s, resp)>>]

\* ScholarQuerier.get_citation_data(article), with the response the site
\* gives if asked: [art, ret, trace]
get_citation_data(art, resp) ==
    IF art.url_citation = None
    THEN [art |-> art, ret |-> Return(BoolV(FALSE)), trace |-> <<>>]
    ELSE IF art.citation_data # None
    THEN [art |-> art, ret |-> Return(BoolV(TRUE)), trace |-> <<>>]
    ELSE IF resp = NoResponse
    THEN [art |-> art, ret |-> Return(BoolV(FALSE)),
          trace |-> <<Exchange(art.url_citation.s, resp)>>]
    ELSE [art |-> [art EXCEPT !.citation_data = resp], ret |-> Return(BoolV(TRUE)),
          trace |-> <<Exchange(art.url_citation.s, resp)>>]

\* faulty variant: the list is kept
KeepArticles(articles) == articles

\* ScholarQuerier.clear_articles
clear_articles(articles) == <<>>

\* the site's response to the citation request of block i
CiteResponse(cites, i) == IF i \in DOMAIN cites THEN cites[i] ELSE NoResponse

\* one entry of the event log
Event(e, i) == [e |-> e, i |-> i]

\* faulty variant: the new record is put in front
AddArticleFirst(articles, art, resp, i) ==
    LET got == get_citation_data(art, resp)
    IN  [articles |-> <<got.art>> \o articles, trace |-> got.trace,
         events |-> (IF got.trace = <<>> THEN <<>> ELSE <<Event("request", i)>>)
                    \o <<Event("append", i)>>]

\* ScholarQuerier.add_article(art) for the article of block i, with the
\* response the site gives to its citation request: [articles, trace, events]
add_article(articles, art, resp, i) ==
    LET got == get_citation_data(art, resp)
    IN  [articles |-> Append(articles, got.art), trace |-> got.trace,
         events |-> (IF got.trace = <<>> THEN <<>> ELSE <<Event("request", i)>>)
                    \o <<Event("append", i)>>]

\* ScholarArticleParser.parse over the blocks from block i on, with
\* handle_article -> add_article: [articles, ret, trace, events]
RECURSIVE parse(_, _, _, _, _, _)

\* parse goes on after add_article has returned
AfterAddArticle(added, blocks, i, tr, ev, cites) ==
    parse(blocks, i + 1, added.articles, tr \o added.trace,
          ev \o <<Event("handle_article", i)>> \o added.events, cites)

\* parse, with the cleaned article of block i: handle_article if it has a
\* title
AfterCleanArticle(art, blocks, i, articles, tr, ev, cites) ==
    IF Truthy(art.title)
    THEN AfterAddArticle(add_article(articles, art, CiteResponse(cites, i), i),
                         blocks, i, tr, ev, cites)
    ELSE parse(blocks, i + 1, articles, tr, ev, cites)

\* parse, with what _parse_article made of block i
AfterParseArticle(parsed, blocks, i, articles, tr, ev, cites) ==
    IF parsed.kind # "ok"
    THEN [articles |-> articles, ret |-> parsed, trace |-> tr, events |-> ev]
    ELSE AfterCleanArticle(_clean_article(parsed.val), blocks, i, articles, tr, ev, cites)

parse(blocks, i, articles, tr, ev, cites) ==
    IF i > Len(blocks)
    THEN [articles |-> articles, ret |-> Return(None), trace |-> tr, events |-> ev]
    ELSE AfterParseArticle(_parse_article(blocks[i]), blocks, i, articles, tr, ev, cites)

\* parse, after _parse_globals has made n of the banner
AfterParseGlobals(n, doc, q, articles, tr, cites) ==
    [query |-> IF n = None THEN q ELSE handle_num_results(q, n)]
    @@ parse(doc.blocks, 1, articles, tr,
             IF n = None THEN <<>> ELSE <<Event("handle_num_results", n.n)>>, cites)

\* ScholarQuerier.parse(html): the parser's _parse_globals with
\* handle_num_results on the querier's query q, then the result blocks:
\* [articles, ret, trace, events, query]
ScholarQuerier_parse(doc, q, articles, tr, cites) ==
    AfterParseGlobals(_parse_globals(doc.banner), doc, q, articles, tr, cites)

\* send_query, with the cleared list and what get_url returned
AfterGetUrl(url, cleared, q, resp, cites) ==
    IF url.kind # "ok"
    THEN [articles |-> cleared, ret |-> url, trace |-> <<>>, events |-> <<>>,
          query |-> q]
    ELSE IF resp = NoResponse
    THEN [articles |-> cleared, ret |-> Return(None),
          trace |-> <<Exchange(url.val.s, resp)>>, events |-> <<>>, query |-> q]
    ELSE ScholarQuerier_parse(resp, q, cleared, <<Exchange(url.val.s, resp)>>, cites)

\* ScholarQuerier.send_query(q), with the response to the query request and
\* the responses to the citation requests: [articles, ret, trace, events,
\* query]
send_query(articles, q, resp, cites) ==
    AfterGetUrl(get_url(q), clear_articles(articles), q, resp, cites)

----------------------------------------------------------------------------
(* What the site answers. *)

SettingsPage(form, input, value) ==
    [t |-> "page", form |-> form, input |-> input, value |-> value]

SettingsPages ==
    { SettingsPage(FALSE, FALSE, None),
      SettingsPage(TRUE, FALSE, None),
      SettingsPage(TRUE, TRUE, None),
      SettingsPage(TRUE, TRUE, StrV(<<"k", "1">>)),
      SettingsPage(TRUE, TRUE, StrV(<<"k", "2">>)) }

Block(ri, h3, title, imp) ==
    [ri |-> ri, h3 |-> h3, title |-> title, imp |-> imp, links |-> <<>>]

\* a titled block with a links row
LinkBlock(title, links, imp) == [Block(TRUE, TRUE, title, imp) EXCEPT !.links = links]

Blocks ==
    { Block(TRUE, TRUE, <<"A">>, StrV(<<"/", "c", "1">>)),
      Block(TRUE, TRUE, <<" ", "B", " ">>, None),
      Block(TRUE, TRUE, <<" ">>, StrV(<<"c", "2">>)),
      Block(FALSE, FALSE, <<>>, None),
      Block(TRUE, FALSE, <<>>, None) }

BannerDoc(banner, blocks) == [t |-> "doc", banner |-> banner, blocks |-> blocks]

Doc(blocks) == BannerDoc(NoBanner, blocks)

Docs == { Doc(b) : b \in UNION { [1..n -> Blocks] : n \in 0..MaxBlocks } }

\* the documents of at most one block
PageDocs == { Doc(<<>>) } \cup { Doc(<<b>>) : b \in Blocks }

\* anchors of links rows: a citation-list link with a count, one whose label
\* has no count, one without a plain-text label; a versions link with a
\* count, one with a non-numeric count, one whose label ends after 'All ';
\* an anchor without href; an unrelated link
Anchors ==
    { Anchor(StrV(<<"/", "s", "c", "h", "o", "l", "a", "r", "?", "c", "i", "t", "e", "s", "=", "7", "&", "n", "u", "m", "=", "5", "&", "h", "l", "=", "e", "n">>), StrV(<<"C", "i", "t", "e", "d", " ", "b", "y", " ", "3">>)),
      Anchor(StrV(<<"/", "s", "c", "h", "o", "l", "a", "r", "?", "c", "i", "t", "e", "s", "=", "8">>), StrV(<<"C", "i", "t", "e", "d", " ", "b", "y">>)),
      Anchor(StrV(<<"/", "s", "c", "h", "o", "l", "a", "r", "?", "c", "i", "t", "e", "s", "=", "9", "&", "n", "u", "m", "=", "2">>), None),
      Anchor(StrV(<<"/", "s", "c", "h", "o", "l", "a", "r", "?", "c", "l", "u", "s", "t", "e", "r", "=", "9", "&", "n", "u", "m", "=", "1">>), StrV(<<"A", "l", "l", " ", "4", " ", "v", "e", "r", "s", "i", "o", "n", "s">>)),
      Anchor(StrV(<<"/", "s", "c", "h", "o", "l", "a", "r", "?", "c", "l", "u", "s", "t", "e", "r", "=", "6">>), StrV(<<"A", "l", "l", " ", "x", " ", "v", "e", "r", "s", "i", "o", "n", "s">>)),
      Anchor(StrV(<<"/", "s", "c", "h", "o", "l", "a", "r", "?", "c", "l", "u", "s", "t", "e", "r", "=", "5">>), StrV(<<"A", "l", "l", " ">>)),
      Anchor(None, StrV(<<"R", "e", "l", "a", "t", "e", "d">>)),
      Anchor(StrV(<<"/", "s", "c", "h", "o", "l", "a", "r", "?", "q", "=", "r", "e", "l", "a", "t", "e", "d", ":", "1">>), StrV(<<"R", "e", "l", "a", "t", "e", "d", " ", "a", "r", "t", "i", "c", "l", "e", "s">>)) }

LinkRows == UNION { [1..n -> Anchors] : n \in 0..MaxLinks }

TitledBlock == Block(TRUE, TRUE, <<"A">>, None)

LinkBlocks ==
    { LinkBlock(<<"T">>, row, None) : row \in LinkRows }
    \cup { LinkBlock(<<"T">>, <<a>>, StrV(<<"/", "c", "3">>)) : a \in Anchors }

\* result-count banners: none; one without text; 'A 1,2 r'; the numeral
\* first; a single word; a word where the numeral is looked for; the
\* numeral in a second text node; two numerals
Banners ==
    { NoBanner,
      Banner(TRUE, <<>>),
      Banner(TRUE, <<<<"A", " ", "1", ",", "2", " ", "r">>>>),
      Banner(TRUE, <<<<"5", " ", "r">>>>),
      Banner(TRUE, <<<<"A">>>>),
      Banner(TRUE, <<<<"A", " ", "x", " ", "r">>>>),
      Banner(TRUE, <<<<"A", " ">>, <<"7", " ", "r">>>>),
      Banner(TRUE, <<<<"3", " ", "4", " ", "r">>>>) }

\* the documents handed to the parser
ParseDocs ==
    { Doc(<<b>>) : b \in LinkBlocks }
    \cup { Doc(<<b, TitledBlock>>) : b \in { x \in LinkBlocks : Len(x.links) <= 1 } }
    \cup { BannerDoc(bn, blocks) : bn \in Banners, blocks \in { <<>>, <<TitledBlock>> } }
    \cup { Doc(<<Block(TRUE, FALSE, <<>>, None), TitledBlock>>) }

Bib1 == StrV(<<"@", "1">>)
Bib2 == StrV(<<"@", "2">>)

\* queries handed to send_query: a cluster query, a search by author, and a
\* search with no criteria
QueryPool ==
    { [NewCluster EXCEPT !.cluster = IntV(7)],
      [NewSearch EXCEPT !.author = StrV(<<"a">>)],
      NewSearch }

----------------------------------------------------------------------------
(* Operations on the querier. *)

\* how an apply_settings call ended
ApplyOutcome(r) ==
    IF r.trace = <<>> THEN "skipped"
    ELSE IF r.ret.kind # "ok" THEN "raised"
    ELSE IF Len(r.trace) = 1
    THEN (IF r.trace[1].resp = NoResponse THEN "fetch_failed" ELSE "no_token")
    ELSE (IF r.ret.val.n # 0 THEN "submitted" ELSE "submit_failed")

\* querier.apply_settings(arg)
ApplySettings(arg, page, submitted) ==
    LET r == apply_settings(querier.settings, arg, settings, page, submitted)
    IN  /\ querier' = [querier EXCEPT !.settings = r.settings]
        /\ call' = Called("apply_settings", <<arg>>)
        /\ ret' = r.ret
        /\ trace' = r.trace
        /\ applied' = ApplyOutcome(r)
        /\ UNCHANGED <<query, ncalls, settings, events, record>>

\* the querier and the observations after send_query returned r
SendQueryDone(q, r) ==
    /\ querier' = [querier EXCEPT !.articles = r.articles, !.query = r.query]
    /\ call' = Called("send_query", <<q>>)
    /\ ret' = r.ret
    /\ trace' = r.trace
    /\ events' = r.events
    /\ UNCHANGED <<query, ncalls, settings, applied, record>>

\* querier.send_query(q)
SendQuery(q, resp, cites) ==
    SendQueryDone(q, send_query(querier.articles, q, resp, cites))

\* querier.get_citation_data(querier.articles[i])
CallGetCitationData(i, resp) ==
    LET r == get_citation_data(querier.articles[i], resp)
    IN  /\ querier' = [querier EXCEPT !.articles[i] = r.art]
        /\ call' = Called("get_citation_data", <<IntV(i)>>)
        /\ ret' = r.ret
        /\ trace' = r.trace
        /\ UNCHANGED <<query, ncalls, settings, applied, events, record>>

\* querier.clear_articles()
CallClearArticles ==
    /\ querier' = [querier EXCEPT !.articles = clear_articles(querier.articles)]
    /\ call' = Called("clear_articles", <<>>)
    /\ ret' = Return(None)
    /\ trace' = <<>>
    /\ UNCHANGED <<query, ncalls, settings, applied, events, record>>

\* parser._strip_url_arg(arg, url)
CallStripUrlArg(arg, url) ==
    /\ call' = Called("_strip_url_arg", <<StrV(arg), StrV(url)>>)
    /\ ret' = Return(StrV(_strip_url_arg(arg, url)))
    /\ UNCHANGED <<query, ncalls, settings, querier, trace, applied, events, record>>

\* everything but the record and the call made on it
RecordFrame == UNCHANGED <<query, ncalls, settings, querier, trace, applied, events>>

\* record[key] = item
SetItem(key, item) ==
    /\ record' = SetItemAttrs(record, key, item)
    /\ call' = Called("__setitem__", <<StrV(<<key>>), item>>)
    /\ ret' = Return(None)
    /\ RecordFrame

\* del record[key]
DelItem(key) ==
    /\ record' = DelItemAttrs(record, key)
    /\ call' = Called("__delitem__", <<StrV(<<key>>)>>)
    /\ ret' = Return(None)
    /\ RecordFrame

----------------------------------------------------------------------------
(* main: the command line, read into options, drives one fresh querier,   *)
(* settings object and query.  Printing the results is left out.          *)

\* the defaults optparse gives the options main reads; nargs is
\* len(sys.argv) - 1, count is the text given to -c
NoOptions ==
    [nargs |-> 1, version |-> FALSE,
     author |-> None, allw |-> None, some |-> None, none |-> None,
     phrase |-> None, pub |-> None, title_only |-> FALSE,
     after |-> None, before |-> None,
     no_patents |-> FALSE, no_citations |-> FALSE,
     cluster_id |-> None, count |-> None, citation |-> None]

\* the ScholarSettings constant main picks for --citation, -1 for a name
\* it does not know
CitationFormat(name) ==
    CASE name = <<"b", "t">> -> CITFORM_BIBTEX
      [] name = <<"e", "n">> -> 3
      [] name = <<"r", "m">> -> 2
      [] name = <<"r", "w">> -> 1
      [] OTHER -> -1

\* main: other search arguments given along with a cluster id
AdditionalArguments(o) ==
    \/ Truthy(o.author) \/ Truthy(o.allw) \/ Truthy(o.some) \/ Truthy(o.none)
    \/ Truthy(o.phrase) \/ o.title_only \/ Truthy(o.pub)
    \/ Truthy(o.after) \/ Truthy(o.before)

\* main: the query built from the options, or the exception a constructor
\* or setter raises
BuildQuery(o) ==
    IF Truthy(o.cluster_id)
    THEN LET r == ensure_int(o.cluster_id)
         IN  IF r.kind = "ok" THEN Return([NewCluster EXCEPT !.cluster = r.val]) ELSE r
    ELSE LET start == IF Truthy(o.after) THEN ensure_int(o.after) ELSE Return(o.after)
             end == IF Truthy(o.before) THEN ensure_int(o.before) ELSE Return(o.before)
             timed == Truthy(o.after) \/ Truthy(o.before)
         IN  IF timed /\ start.kind # "ok" THEN start
             ELSE IF timed /\ end.kind # "ok" THEN end
             ELSE Return([NewSearch EXCEPT
                     !.author = IF Truthy(o.author) THEN o.author ELSE @,
                     !.words = IF Truthy(o.allw) THEN o.allw ELSE @,
                     !.words_some = IF Truthy(o.some) THEN o.some ELSE @,
                     !.words_none = IF Truthy(o.none) THEN o.none ELSE @,
                     !.phrase = IF Truthy(o.phrase) THEN o.phrase ELSE @,
                     !.scope_title = IF o.title_only THEN TRUE ELSE @,
                     !.pub = IF Truthy(o.pub) THEN o.pub ELSE @,
                     !.timeframe = IF timed THEN <<start.val, end.val>> ELSE @,
                     !.include_patents = IF o.no_patents THEN FALSE ELSE @,
                     !.include_citations = IF o.no_citations THEN FALSE ELSE @])

\* main: options.count = min(options.count, MAX_PAGE_RESULTS);
\* query.set_num_page_results(options.count)
WithCount(q, count) ==
    IF count = None THEN q
    ELSE [q EXCEPT !.num_results =
             IntV(IF ParseInt(count.s).v < MAX_PAGE_RESULTS
                  THEN ParseInt(count.s).v ELSE MAX_PAGE_RESULTS)]

\* how a run of main ended
MainEnd(r, printed, tr, qr, s, q) ==
    [ret |-> r, events |-> printed, trace |-> tr, querier |-> qr, settings |-> s,
     query |-> q]

\* main, after send_query has returned
AfterSendQuery(sent, done, s) ==
    MainEnd(IF sent.ret.kind # "ok" THEN sent.ret ELSE Return(IntV(0)),
            sent.events, done.trace \o sent.trace,
            [NewQuerier EXCEPT !.settings = done.settings, !.articles = sent.articles,
                               !.query = sent.query],
            s, sent.query)

\* main, after the query has been built
AfterBuildQuery(built, done, s, o, resp, cites) ==
    IF built.kind # "ok"
    THEN MainEnd(built, <<>>, done.trace, [NewQuerier EXCEPT !.settings = done.settings],
                 s, NoObject)
    ELSE AfterSendQuery(send_query(<<>>, WithCount(built.val, o.count), resp, cites),
                        done, s)

\* main, after apply_settings has returned
AfterApplySettings(done, s, o, resp, cites) ==
    IF done.ret.kind # "ok"
    THEN MainEnd(done.ret, <<>>, done.trace, [NewQuerier EXCEPT !.settings = done.settings],
                 s, NoObject)
    ELSE AfterBuildQuery(BuildQuery(o), done, s, o, resp, cites)

\* main, from querier.apply_settings(settings) on
WithSettings(s, o, page, submitted, resp, cites) ==
    AfterApplySettings(apply_settings(None, SettingsRef, s, page, submitted),
                       s, o, resp, cites)

\* main(), with what the site answers to the settings fetch, the settings
\* submit, the query and the citation requests
main(o, page, submitted, resp, cites) ==
    IF o.count # None /\ ~ParseInt(o.count.s).ok
    THEN MainEnd(Raise("SystemExit"), <<Event("print_usage_error", 2)>>, <<>>,
                 NewQuerier, NewSettings, NoObject)
    ELSE IF o.nargs = 0
    THEN MainEnd(Return(IntV(1)), <<Event("print_help", 1)>>, <<>>,
                 NewQuerier, NewSettings, NoObject)
    ELSE IF o.version
    THEN MainEnd(Return(IntV(0)), <<Event("print_version", 0)>>, <<>>,
                 NewQuerier, NewSettings, NoObject)
    ELSE IF o.cluster_id # None /\ AdditionalArguments(o)
    THEN MainEnd(Return(IntV(1)), <<Event("print_cluster_arguments", 1)>>, <<>>,
                 NewQuerier, NewSettings, NoObject)
    ELSE IF o.citation # None /\ CitationFormat(o.citation.s) < 0
    THEN MainEnd(Return(IntV(1)), <<Event("print_invalid_citation", 1)>>, <<>>,
                 NewQuerier, NewSettings, NoObject)
    ELSE WithSettings(IF o.citation = None THEN NewSettings
                      ELSE [NewSettings EXCEPT !.citform = CitationFormat(o.citation.s),
                                               !.is_configured = TRUE],
                      o, page, submitted, resp, cites)

\* command lines: one option at a time, and the combinations of a cluster
\* id or a search criterion with a citation format, a year and a count
MainOptions ==
    { NoOptions, [NoOptions EXCEPT !.nargs = 0], [NoOptions EXCEPT !.version = TRUE],
      [NoOptions EXCEPT !.allw = StrV(<<"a">>)], [NoOptions EXCEPT !.some = StrV(<<"a">>)],
      [NoOptions EXCEPT !.none = StrV(<<"a">>)], [NoOptions EXCEPT !.phrase = StrV(<<"a">>)],
      [NoOptions EXCEPT !.pub = StrV(<<"a">>)], [NoOptions EXCEPT !.title_only = TRUE],
      [NoOptions EXCEPT !.no_patents = TRUE], [NoOptions EXCEPT !.no_citations = TRUE],
      [NoOptions EXCEPT !.before = StrV(<<"x">>)],
      [NoOptions EXCEPT !.before = StrV(<<"2", "0", "0", "1">>)] }
    \cup { [NoOptions EXCEPT !.cluster_id = c, !.citation = f, !.author = a]
             : c \in { StrV(<<"7">>), StrV(<<"x">>), StrV(<<>>) },
               f \in { None, StrV(<<"b", "t">>), StrV(<<"z", "z">>) },
               a \in { None, StrV(<<"a">>) } }
    \cup { [NoOptions EXCEPT !.author = a, !.citation = f, !.after = y, !.count = n]
             : a \in { None, StrV(<<"a">>) },
               f \in { None, StrV(<<"r", "w">>), StrV(<<"z", "z">>) },
               y \in { None, StrV(<<"x">>), StrV(<<"1", "9", "9", "9">>) },
               n \in { None, StrV(<<"5">>), StrV(<<"4", "0">>), StrV(<<"x">>) } }

\* the objects and the observations after a run of main ended as r
MainDone(o, r) ==
    /\ querier' = r.querier
    /\ settings' = r.settings
    /\ query' = r.query
    /\ ncalls' = 0
    /\ call' = [op |-> "main", args |-> <<o>>, had |-> 0]
    /\ ret' = r.ret
    /\ trace' = r.trace
    /\ events' = r.events
    /\ UNCHANGED <<applied, record>>

\* one run of main
Main(o, page, submitted, resp, cites) ==
    MainDone(o, main(o, page, submitted, resp, cites))

----------------------------------------------------------------------------
(* Specifications. *)

Init ==
    /\ query = NewSearch
    /\ ncalls = 0
    /\ settings = NewSettings
    /\ querier = NewQuerier
    /\ call = Called("init", <<>>)
    /\ ret = Return(None)
    /\ trace = <<>>
    /\ applied = "never"
    /\ events = <<>>
    /\ record = NewRecord

\* the responses to the citation requests of a document: one for each
\* block that carries an import link
CiteResponses(resp, bodies) ==
    IF resp = NoResponse THEN { <<>> }
    ELSE [{ i \in 1..Len(resp.blocks) : resp.blocks[i].imp # None } -> bodies]

\* the session: settings are configured and applied, and queries are sent
Next ==
    \/ \E c \in {IntV(4), IntV(7)} : set_citation_format(c)
    \/ \E n \in {IntV(5)} : set_per_page_results(n)
    \/ \E arg \in {None, SettingsRef}, page \in SettingsPages \cup {NoResponse},
          submitted \in {NoResponse, StrV(<<"o", "k">>)} :
          ApplySettings(arg, page, submitted)
    \/ \E q \in QueryPool, resp \in PageDocs \cup {NoResponse} :
          \E cites \in CiteResponses(resp, {NoResponse, Bib1}) :
              SendQuery(q, resp, cites)

Spec == Init /\ [][Next]_vars

\* the records of a session: queries are sent and citation exports fetched
NextRecords ==
    \/ \E q \in {[NewSearch EXCEPT !.author = StrV(<<"a">>)]},
          resp \in Docs \cup {NoResponse} :
          \E cites \in CiteResponses(resp, {NoResponse, Bib1}) :
              SendQuery(q, resp, cites)
    \/ \E resp \in {NoResponse} :
          SendQuery(NewSearch, resp, <<>>)
    \/ \E i \in 1..Len(querier.articles), resp \in {NoResponse, Bib2} :
          CallGetCitationData(i, resp)
    \/ CallClearArticles

SpecRecords == Init /\ [][NextRecords]_vars

\* the parser at work: a cluster query is sent and answered
NextParse ==
    \E resp \in ParseDocs :
        \E cites \in CiteResponses(resp, {Bib1}) :
            SendQuery([NewCluster EXCEPT !.cluster = IntV(7)], resp, cites)

SpecParse == Init /\ [][NextParse]_vars

\* runs of main
NextMain ==
    \E o \in MainOptions, page \in { NoResponse, SettingsPage(TRUE, TRUE, StrV(<<"k", "1">>)) },
       resp \in { NoResponse, Doc(<<TitledBlock>>) } :
        Main(o, page, StrV(<<"o", "k">>), resp, <<>>)

SpecMain == Init /\ [][NextMain]_vars

\* the pieces a query string is put together from
UrlArgs ==
    { <<"n", "u", "m", "=", "1">>, <<"a", "=", "2">>, <<"n", "u", "m", "=">>, <<"x", "n", "u", "m", "=", "3">>, <<"b", "?", "n", "u", "m", "=", "4">>, <<>> }

\* URLs: without a query string, and with one of up to MaxArgs arguments
Urls ==
    { <<>>, <<"u">>, <<"?">> }
    \cup { <<"u", "?">> \o Join(<<"&">>, args)
             : args \in UNION { [1..n -> UrlArgs] : n \in 0..MaxArgs } }

\* citation-list links: with a num argument, with two cites arguments, with
\* cites as a bare name, and with nothing but cites
CitesAnchors ==
    { Anchor(StrV(<<"/", "s", "c", "h", "o", "l", "a", "r", "?", "c", "i", "t", "e", "s", "=", "7", "&", "n", "u", "m", "=", "5", "&", "h", "l", "=", "e", "n">>), StrV(<<"C", "i", "t", "e", "d", " ", "b", "y", " ", "3">>)),
      Anchor(StrV(<<"/", "s", "c", "h", "o", "l", "a", "r", "?", "c", "i", "t", "e", "s", "=", "1", "&", "n", "u", "m", "=", "2", "&", "c", "i", "t", "e", "s", "=", "2">>), StrV(<<"C", "i", "t", "e", "d", " ", "b", "y", " ", "4">>)),
      Anchor(StrV(<<"/", "s", "c", "h", "o", "l", "a", "r", "?", "c", "i", "t", "e", "s", "&", "n", "u", "m", "=", "3">>), StrV(<<"C", "i", "t", "e", "d", " ", "b", "y", " ", "5">>)),
      Anchor(StrV(<<"/", "s", "c", "h", "o", "l", "a", "r", "?", "c", "i", "t", "e", "s", "=", "8">>), StrV(<<"C", "i", "t", "e", "d", " ", "b", "y", " ", "6">>)) }

\* documents of one block whose links row holds citation-list links
CitesDocs ==
    { Doc(<<LinkBlock(<<"T">>, <<a>>, None)>>) : a \in CitesAnchors }
    \cup { Doc(<<LinkBlock(<<"T">>, <<a, Anchor(StrV(<<"/", "s", "c", "h", "o", "l", "a", "r", "?", "c", "i", "t", "e", "s", "=", "8">>), StrV(<<"C", "i", "t", "e", "d", " ", "b", "y", " ", "6">>))>>, None)>>)
             : a \in CitesAnchors }

\* stripping URLs, and parsing citation-list links
NextLinks ==
    \/ \E url \in Urls : CallStripUrlArg(<<"n", "u", "m">>, url)
    \/ \E resp \in CitesDocs :
           SendQuery([NewCluster EXCEPT !.cluster = IntV(7)], resp, <<>>)

SpecLinks == Init /\ [][NextLinks]_vars

\* keys and items of the assignments and deletions on a record: two
\* registered keys and two unknown ones
RecordKeys == { "title", "excerpt", "x", "y" }

RecordItems == { None, StrV(<<"v">>) }

\* a record whose fields are assigned and deleted
NextArticle ==
    \/ \E key \in RecordKeys, item \in RecordItems : SetItem(key, item)
    \/ \E key \in RecordKeys : DelItem(key)

SpecArticle == Init /\ [][NextArticle]_vars

\* building queries and their URLs
NextQuery ==
    \/ SearchInit
    \/ \E c \in ClusterArgs : ClusterInit(c)
    \/ \E c \in ClusterArgs : ClusterUrl(c)
    \/ \E c \in ClusterArgs : set_cluster(c)
    \/ \E n \in NumArgs : set_num_page_results(n)
    \/ \E w \in TextArgs : set_words(w)
    \/ \E w \in PhraseListArgs : set_words_some(w)
    \/ \E w \in PhraseListArgs : set_words_none(w)
    \/ \E p \in TextArgs : set_phrase(p)
    \/ \E a \in TextArgs : set_author(a)
    \/ \E p \in TextArgs : set_pub(p)
    \/ \E b \in BOOLEAN : set_scope(b)
    \/ \E b \in BOOLEAN : set_include_citations(b)
    \/ \E b \in BOOLEAN : set_include_patents(b)
    \/ \E s \in YearArgs, e \in YearArgs : set_timeframe(s, e)
    \/ CallGetUrl

SpecQuery == Init /\ [][NextQuery]_vars

\* configuring a settings object
NextSettings ==
    \/ \E c \in CitformArgs : set_citation_format(c)
    \/ \E n \in PerPageArgs : set_per_page_results(n)

SpecSettings == Init /\ [][NextSettings]_vars

----------------------------------------------------------------------------
(* Reading a URL back: its query-string slots, in order, as <<name, value>>. *)

QuerySlots(url) ==
    LET parts == Split1(url, "?")
        args == IF Len(parts) = 2 THEN Split(parts[2], "&") ELSE <<>>
    IN  [i \in 1..Len(args) |-> Split1(args[i], "=")]

SlotNames(url) == [i \in 1..Len(QuerySlots(url)) |-> QuerySlots(url)[i][1]]

SlotValue(url, i) ==
    IF Len(QuerySlots(url)[i]) = 2 THEN QuerySlots(url)[i][2] ELSE <<>>

\* the argument denotes an integer, and which
IsNumeric(a) == a.t = "int" \/ (a.t = "str" /\ ParseInt(a.s).ok)
NumericValue(a) == IF a.t = "int" THEN a.n ELSE ParseInt(a.s).v

\* a non-empty string of digits
IsDigitString(a) ==
    a.t = "str" /\ a.s # <<>> /\ \A i \in 1..Len(a.s) : IsDigit(a.s[i])

----------------------------------------------------------------------------
(* Claims about the queries, under SpecQuery. *)

AllCriteriaUnset ==
    /\ query.words = None /\ query.words_some = None /\ query.words_none = None
    /\ query.phrase = None /\ query.author = None /\ query.pub = None
    /\ query.timeframe = <<None, None>>

(* C1: get_url of a search query with none of words, words_some,          *)
(* words_none, phrase, author, pub, timeframe start and end set raises    *)
(* QueryArgumentError; with any of them supplied it returns a URL.        *)
C1_SearchNeedsOneCriterion ==
    (call.op = "get_url" /\ query.kind = "search") =>
        IF AllCriteriaUnset
        THEN ret = Raise("QueryArgumentError")
        ELSE /\ ret.kind = "ok"
             /\ ret.val.t = "str"
             /\ StartsWith(ret.val.s, SCHOLAR_SITE \o <<"/","s","c","h","o","l","a","r","?">>)

\* only the author was supplied, and get_url returned a URL
C1_Witness ==
    /\ call.op = "get_url" /\ query.kind = "search"
    /\ query.author # None
    /\ query.words = None /\ query.words_some = None /\ query.words_none = None
    /\ query.phrase = None /\ query.pub = None /\ query.timeframe = <<None, None>>
    /\ ret.kind = "ok"

(* C2: building a cluster URL from a non-numeric id raises FormatError,   *)
(* from an absent (None) id raises FormatError or QueryArgumentError, and *)
(* from a numeric string returns a URL whose cluster slot holds the very  *)
(* characters supplied.                                                    *)
C2_ClusterIdChecked ==
    (call.op = "cluster_url") =>
        LET c == call.args[1]
        IN  /\ c = None => ret.kind \in {"FormatError", "QueryArgumentError"}
            /\ (c.t = "str" /\ ~IsNumeric(c)) => ret = Raise("FormatError")
            /\ IsDigitString(c) =>
                   /\ ret.kind = "ok"
                   /\ SlotNames(ret.val.s)[1] = <<"c","l","u","s","t","e","r">>
                   /\ SlotValue(ret.val.s, 1) = c.s

\* what a field shows as in its slot: empty when unconfigured, else quoted
SlotOf(x) == IF x = None THEN <<>> ELSE quote(encode(x))

SlotOfPhrases(x) == IF x = None THEN <<>> ELSE quote(_parenthesize_phrases(x.s))

(* C3: the URL of every valid search query has the slots as_q, as_epq,    *)
(* as_oq, as_eq, as_occt, as_sauthors, as_publication, as_ylo, as_yhi,    *)
(* as_sdt, as_vis, btnG, hl, num in this order; each configured field     *)
(* shows in its slot, quoted after its transformation, each unconfigured  *)
(* field as an empty slot; scope is title or any, flags are 0 or 1.       *)
C3_SearchUrlTemplate ==
    (call.op = "get_url" /\ query.kind = "search" /\ ret.kind = "ok") =>
        LET u == ret.val.s
        IN  /\ SlotNames(u) =
                 << <<"a","s","_","q">>, <<"a","s","_","e","p","q">>,
                    <<"a","s","_","o","q">>, <<"a","s","_","e","q">>,
                    <<"a","s","_","o","c","c","t">>,
                    <<"a","s","_","s","a","u","t","h","o","r","s">>,
                    <<"a","s","_","p","u","b","l","i","c","a","t","i","o","n">>,
                    <<"a","s","_","y","l","o">>, <<"a","s","_","y","h","i">>,
                    <<"a","s","_","s","d","t">>, <<"a","s","_","v","i","s">>,
                    <<"b","t","n","G">>, <<"h","l">>, <<"n","u","m">> >>
            /\ SlotValue(u, 1) = SlotOf(query.words)
            /\ SlotValue(u, 2) = SlotOf(query.phrase)
            /\ SlotValue(u, 3) = SlotOfPhrases(query.words_some)
            /\ SlotValue(u, 4) = SlotOfPhrases(query.words_none)
            /\ SlotValue(u, 5) = IF query.scope_title THEN <<"t","i","t","l","e">>
                                 ELSE <<"a","n","y">>
            /\ SlotValue(u, 6) = SlotOf(query.author)
            /\ SlotValue(u, 7) = SlotOf(query.pub)
            /\ SlotValue(u, 8) = SlotOf(query.timeframe[1])
            /\ SlotValue(u, 9) = SlotOf(query.timeframe[2])
            /\ SlotValue(u, 10) = (IF query.include_patents THEN <<"0">> ELSE <<"1">>)
                                  \o <<"%","2","C","5">>
            /\ SlotValue(u, 11) = IF query.include_citations THEN <<"0">> ELSE <<"1">>
            /\ SlotValue(u, 12) = <<>>
            /\ SlotValue(u, 13) = <<"e","n">>

\* the num slot of a query URL, as a number
NumSlot(url) ==
    LET n == Len(QuerySlots(url)) IN ParseInt(SlotValue(url, n)).v

(* C6: the num emitted by get_url, search or cluster, is never greater    *)
(* than MAX_PAGE_RESULTS, whatever numeric value set_num_page_results was *)
(* given, and is 20 when it was never set.                                 *)
C6_QueryPageSizeClamped ==
    (call.op \in {"get_url", "cluster_url"} /\ ret.kind = "ok") =>
        /\ SlotNames(ret.val.s)[Len(SlotNames(ret.val.s))] = <<"n","u","m">>
        /\ NumSlot(ret.val.s) <= MAX_PAGE_RESULTS
        /\ ncalls = 0 => NumSlot(ret.val.s) = 20

----------------------------------------------------------------------------
(* Claims about the settings, under SpecSettings. *)

(* C4: set_citation_format rejects every value outside {0,1,2,3,4} with   *)
(* FormatError and leaves the stored format and the configured flag as    *)
(* they were; for every value in {0,1,2,3,4} it stores the value and sets *)
(* the flag.                                                               *)
C4_CitationFormatChecked ==
    [][ call'.op = "set_citation_format" =>
          LET a == call'.args[1]
          IN  IF IsNumeric(a) /\ NumericValue(a) \in {0, 1, 2, 3, 4}
              THEN /\ ret' = Return(None)
                   /\ settings'.citform = NumericValue(a)
                   /\ settings'.is_configured
                   /\ settings'.per_page_results = settings.per_page_results
              ELSE /\ ret' = Raise("FormatError")
                   /\ settings' = settings ]_vars

\* a format was rejected on a settings object configured before
C4_Witness ==
    /\ call.op = "set_citation_format"
    /\ ret = Raise("FormatError")
    /\ settings.is_configured
    /\ settings.citform = 4

(* C5: per_page_results never exceeds MAX_PAGE_RESULTS: given a value     *)
(* above the maximum set_per_page_results stores the maximum, given a     *)
(* value at or below it stores that value, and both set the flag.         *)
C5_PerPageClamped ==
    /\ settings.per_page_results <= MAX_PAGE_RESULTS
    /\ (call.op = "set_per_page_results" /\ IsNumeric(call.args[1])) =>
           LET n == NumericValue(call.args[1])
           IN  /\ ret = Return(None)
               /\ settings.per_page_results = IF n > MAX_PAGE_RESULTS
                                              THEN MAX_PAGE_RESULTS ELSE n
               /\ settings.is_configured

\* a value above the maximum was stored as the maximum
C5_Witness ==
    /\ call.op = "set_per_page_results"
    /\ IsNumeric(call.args[1])
    /\ NumericValue(call.args[1]) > MAX_PAGE_RESULTS
    /\ settings.per_page_results = MAX_PAGE_RESULTS
    /\ settings.is_configured

----------------------------------------------------------------------------
(* Claims about the settings handshake, under Spec. *)

\* the response holds the form and, in it, the scisig token
HasToken(page) ==
    page # NoResponse /\ page.form /\ page.input /\ page.value # None

\* the request is a submit that carries the token
SubmitCarries(url, token) ==
    LET head == SCHOLAR_SITE \o
                <<"/","s","c","h","o","l","a","r","_","s","e","t","p","r","e","f","s","?",
                  "q","=","&","s","c","i","s","i","g","=">> \o token
    IN  /\ StartsWith(url, head)
        /\ StartsWith(SubSeq(url, Len(head) + 1, Len(url)),
                      <<"&","i","n","s","t","s","t","a","r","t","=","0">>)

(* C7: apply_settings produces no request at all (settings None or never  *)
(* configured; success), or the settings-form fetch alone (fetch failed,  *)
(* or form or scisig token absent; failure), or the fetch followed by     *)
(* exactly one submit carrying the scraped token (success iff the submit  *)
(* returned a response); no submit without a fetch that held the token.   *)
C7_ApplySettingsTraces ==
    call.op = "apply_settings" =>
        \/ /\ trace = <<>>
           /\ call.args[1] = None \/ ~settings.is_configured
           /\ ret = Return(BoolV(TRUE))
        \/ /\ Len(trace) = 1
           /\ trace[1].url = GET_SETTINGS_URL
           /\ ~HasToken(trace[1].resp)
           /\ ret = Return(BoolV(FALSE))
        \/ /\ Len(trace) = 2
           /\ trace[1].url = GET_SETTINGS_URL
           /\ HasToken(trace[1].resp)
           /\ SubmitCarries(trace[2].url, trace[1].resp.value.s)
           /\ ret = Return(BoolV(trace[2].resp # NoResponse))

(* C8 as stated: when the settings-form fetch fails no submit is issued,  *)
(* the querier's settings are as they were before the call, and           *)
(* apply_settings returns failure without raising.                         *)
C8_FailedFetchLeavesSettings ==
    [][ (call'.op = "apply_settings" /\ Len(trace') >= 1 /\ trace'[1].resp = NoResponse) =>
          /\ Len(trace') = 1
          /\ ret' = Return(BoolV(FALSE))
          /\ querier'.settings = querier.settings ]_vars

\* the titles of the accumulated records
Titles(articles) == [i \in 1..Len(articles) |-> articles[i].title.s]

\* the blocks before the first one whose div.gs_ri has no heading
RECURSIVE WellFormedPrefix(_)
WellFormedPrefix(blocks) ==
    IF blocks = <<>> \/ (Head(blocks).ri /\ ~Head(blocks).h3) THEN <<>>
    ELSE <<Head(blocks)>> \o WellFormedPrefix(Tail(blocks))

\* the titles a document's blocks yield, in document order
RECURSIVE TitlesOf(_)
TitlesOf(blocks) ==
    IF blocks = <<>> THEN <<>>
    ELSE IF Head(blocks).ri /\ Strip(Head(blocks).title) # <<>>
    THEN <<Strip(Head(blocks).title)>> \o TitlesOf(Tail(blocks))
    ELSE TitlesOf(Tail(blocks))

(* C8, amended: when the settings-form fetch fails no submit is issued,   *)
(* apply_settings returns False without raising, and the querier's        *)
(* settings attribute already holds the settings passed in (it is         *)
(* assigned before the fetch); a later send_query on a valid query still  *)
(* issues its request and adds the records of the response.               *)
C8_FailedFetchNotFatal ==
    /\ (call.op = "apply_settings" /\ Len(trace) >= 1 /\ trace[1].resp = NoResponse) =>
           /\ Len(trace) = 1
           /\ trace[1].url = GET_SETTINGS_URL
           /\ ret = Return(BoolV(FALSE))
           /\ querier.settings = call.args[1]
    /\ (call.op = "send_query" /\ applied = "fetch_failed"
            /\ get_url(call.args[1]).kind = "ok") =>
           /\ Len(trace) >= 1
           /\ trace[1].url = get_url(call.args[1]).val.s
           /\ trace[1].resp # NoResponse =>
                  Titles(querier.articles) = TitlesOf(WellFormedPrefix(trace[1].resp.blocks))

\* the fetch failed, and the next send_query added a record
C8_Witness ==
    /\ call.op = "send_query"
    /\ applied = "fetch_failed"
    /\ querier.settings = SettingsRef
    /\ Len(querier.articles) = 1

----------------------------------------------------------------------------
(* Claims about the records, under SpecRecords. *)

C9_AfterSendQuery ==
    call.op = "send_query" =>
        IF get_url(call.args[1]).kind # "ok"
        THEN trace = <<>> /\ querier.articles = <<>>
        ELSE /\ Len(trace) >= 1
             /\ trace[1].url = get_url(call.args[1]).val.s
             /\ IF trace[1].resp = NoResponse
                THEN Len(trace) = 1 /\ ret = Return(None) /\ querier.articles = <<>>
                ELSE Titles(querier.articles) =
                         TitlesOf(WellFormedPrefix(trace[1].resp.blocks))

C9_OnlySendQueryAdds ==
    call'.op # "send_query" =>
        \/ Titles(querier'.articles) = Titles(querier.articles)
        \/ querier'.articles = <<>>

(* C9: the accumulated records are those the most recent send_query       *)
(* discovered: send_query clears the earlier ones before its request, a   *)
(* failed request ends it with no records and no exception, and no other  *)
(* operation adds a record.                                                *)
C9_OnlyLatestRecords == []C9_AfterSendQuery /\ [][C9_OnlySendQueryAdds]_vars

\* records had accumulated, and a send_query whose request failed left none
C9_Witness ==
    /\ call.op = "send_query"
    /\ call.had > 0
    /\ Len(trace) = 1 /\ trace[1].resp = NoResponse
    /\ querier.articles = <<>>

\* the citation requests in the trace of a send_query
CitationExchanges(tr) == SubSeq(tr, 2, Len(tr))

\* the records that name an export URL
WithExportUrl(articles) == SelectSeq(articles, LAMBDA a : a.url_citation # None)

C10_GetCitationDataStep ==
    call'.op = "get_citation_data" =>
        LET i == call'.args[1].n
            a == querier.articles[i]
            b == querier'.articles[i]
        IN  /\ ret'.kind = "ok"
            /\ \A j \in 1..Len(querier.articles) : j # i =>
                   querier'.articles[j] = querier.articles[j]
            /\ Len(querier'.articles) = Len(querier.articles)
            /\ IF a.url_citation = None \/ a.citation_data # None
               THEN trace' = <<>> /\ b = a
               ELSE /\ Len(trace') = 1
                    /\ trace'[1].url = a.url_citation.s
                    /\ IF trace'[1].resp = NoResponse
                       THEN b = a /\ ret' = Return(BoolV(FALSE))
                       ELSE /\ b = [a EXCEPT !.citation_data = trace'[1].resp]
                            /\ ret' = Return(BoolV(TRUE))

C10_DuringSendQuery ==
    (call.op = "send_query" /\ ret.kind = "ok" /\ Len(trace) >= 1
        /\ trace[1].resp # NoResponse) =>
        LET linked == WithExportUrl(querier.articles)
            asked == CitationExchanges(trace)
        IN  /\ Len(querier.articles) = Len(TitlesOf(trace[1].resp.blocks))
            /\ Len(asked) = Len(linked)
            /\ \A k \in 1..Len(linked) :
                   /\ asked[k].url = linked[k].url_citation.s
                   /\ linked[k].citation_data =
                          IF asked[k].resp = NoResponse THEN None ELSE asked[k].resp
            /\ \A k \in 1..Len(querier.articles) :
                   querier.articles[k].url_citation = None =>
                       querier.articles[k].citation_data = None

(* C10: get_citation_data issues no request for a record without export  *)
(* URL or with export data already stored, and leaves the record as it    *)
(* is; otherwise it issues one GET to the export URL and stores the body  *)
(* as received; a failed fetch leaves the data unset, raises nothing, and *)
(* the remaining records of the query are still processed.                *)
C10_CitationFetchedOnce == []C10_DuringSendQuery /\ [][C10_GetCitationDataStep]_vars

\* a record that already carried export data was asked again: no request
C10_Witness ==
    /\ call.op = "get_citation_data"
    /\ trace = <<>>
    /\ ret = Return(BoolV(TRUE))
    /\ querier.articles[call.args[1].n].citation_data = Bib1

\* a citation fetch failed and the next record was still added
C10_WitnessFailedFetch ==
    /\ call.op = "send_query"
    /\ Len(querier.articles) = 2
    /\ Len(trace) = 3
    /\ trace[2].resp = NoResponse
    /\ querier.articles[1].citation_data = None
    /\ querier.articles[2].citation_data = Bib1

----------------------------------------------------------------------------
(* The event log of a send_query. *)

\* the events of one kind, in the order they happened
EventsOf(kind) == SelectSeq(events, LAMBDA x : x.e = kind)

\* the block numbers of a sequence of events
BlockNumbers(evs) == [k \in 1..Len(evs) |-> evs[k].i]

\* the document a send_query received
ReceivedBlocks == trace[1].resp.blocks

(* C11: during one send_query the records are appended in the order the   *)
(* parser reports their result blocks, which is document order: the k-th   *)
(* accumulated record is the record of the k-th reported block; and every  *)
(* citation request is for a block the parser has reported earlier in the  *)
(* same run, and goes to that block's export URL.                          *)
C11_AppendedInDiscoveryOrder ==
    (call.op = "send_query" /\ events # <<>>) =>
        LET found == EventsOf("handle_article")
            added == EventsOf("append")
            asked == EventsOf("request")
        IN  /\ \A k \in 1..(Len(found) - 1) : found[k].i < found[k + 1].i
            /\ BlockNumbers(added) = BlockNumbers(found)
            /\ Len(querier.articles) = Len(added)
            /\ \A k \in 1..Len(added) :
                   querier.articles[k].title.s = Strip(ReceivedBlocks[added[k].i].title)
            /\ \A p \in 1..Len(events) :
                   events[p].e = "request" =>
                       \E d \in 1..(p - 1) :
                           events[d] = Event("handle_article", events[p].i)
            /\ Len(asked) = Len(trace) - 1
            /\ \A k \in 1..Len(asked) :
                   trace[k + 1].url = _path2url(ReceivedBlocks[asked[k].i].imp.s)

\* two blocks were reported, the second one's citation was requested, and
\* the records stand in document order
C11_Witness ==
    /\ call.op = "send_query"
    /\ Len(querier.articles) = 2
    /\ querier.articles[1].title # querier.articles[2].title
    /\ BlockNumbers(EventsOf("append")) = <<1, 2>>
    /\ \E p \in 1..Len(events) : events[p] = Event("request", 2)

\* the block's markup holds a title: a div.gs_ri with a heading whose text
\* is not blank
HasTitle(block) == block.ri /\ block.h3 /\ Strip(block.title) # <<>>

\* the numbers of the blocks that hold a title, in document order
TitledBlockNumbers(blocks) ==
    SelectSeq([i \in 1..Len(blocks) |-> i], LAMBDA i : HasTitle(blocks[i]))

(* C12: for every document the parser received, the record callback is    *)
(* invoked exactly once for each result block that holds a title, in      *)
(* document order, and for no other block; the number of records equals   *)
(* the number of blocks that hold a title.                                *)
C12_OneCallbackPerTitledBlock ==
    (call.op = "send_query" /\ trace # <<>> /\ trace[1].resp # NoResponse) =>
        /\ BlockNumbers(EventsOf("handle_article")) = TitledBlockNumbers(ReceivedBlocks)
        /\ Len(querier.articles) = Len(TitledBlockNumbers(ReceivedBlocks))

\* the banner's text
BannerText(banner) == Cat(banner.texts)

\* the first whitespace-delimited token of a text that, thousands
\* separators removed, is an integer: its value, None when there is none
FirstNumeral(text) ==
    LET numerals == SelectSeq(SplitWs(text), LAMBDA t : ParseInt(Remove(t, ",")).ok)
    IN  IF numerals = <<>> THEN None
        ELSE IntV(ParseInt(Remove(numerals[1], ",")).v)

\* the document a send_query received
ReceivedDoc == trace[1].resp

(* C13: during one parse the total-count callback is invoked at most      *)
(* once; it is invoked with n exactly when the document holds a           *)
(* result-count banner whose first whitespace-delimited numeral,          *)
(* thousands separators removed, is the integer n, wherever in the text   *)
(* that numeral stands.                                                   *)
C13_TotalCountCallback ==
    (call.op = "send_query" /\ trace # <<>> /\ trace[1].resp # NoResponse) =>
        LET calls == EventsOf("handle_num_results")
            expected == IF ReceivedDoc.banner.found
                        THEN FirstNumeral(BannerText(ReceivedDoc.banner)) ELSE None
        IN  /\ Len(calls) <= 1
            /\ expected = None => calls = <<>>
            /\ expected # None => calls = <<Event("handle_num_results", expected.n)>>

(* C14: parsing never raises: whatever child a result block lacks and    *)
(* whatever the count token of a 'Cited by' or 'All ... versions' label   *)
(* is, send_query returns normally and every block of the document that   *)
(* holds a title has become a record.                                     *)
C14_ParsingNeverRaises ==
    (call.op = "send_query" /\ trace # <<>> /\ trace[1].resp # NoResponse) =>
        /\ ret.kind = "ok"
        /\ Len(querier.articles) = Len(TitledBlockNumbers(ReceivedDoc.blocks))

----------------------------------------------------------------------------
(* Runs of main. *)

\* the options of the run
RunOptions == call.args[1]

\* a text that is given and is not an integer
NotNumeric(x) == Truthy(x) /\ ~ParseInt(x.s).ok

\* a search criterion is among the options
CriterionGiven(o) ==
    \/ Truthy(o.author) \/ Truthy(o.allw) \/ Truthy(o.some) \/ Truthy(o.none)
    \/ Truthy(o.phrase) \/ Truthy(o.pub) \/ Truthy(o.after) \/ Truthy(o.before)

\* the command line is one the spec calls invalid: a cluster id combined
\* with search arguments, a search without any criterion, an unknown
\* citation format, or a malformed cluster id, year or count
InvalidCommandLine(o) ==
    \/ o.cluster_id # None /\ AdditionalArguments(o)
    \/ ~Truthy(o.cluster_id) /\ ~CriterionGiven(o)
    \/ o.citation # None /\ CitationFormat(o.citation.s) < 0
    \/ NotNumeric(o.cluster_id) \/ NotNumeric(o.after) \/ NotNumeric(o.before)
    \/ o.count # None /\ ~ParseInt(o.count.s).ok

\* the run told the user something: a printed message, or the traceback of
\* an exception that left main
UserFacingMessage ==
    \/ ret.kind # "ok"
    \/ \E k \in 1..Len(events) :
           events[k].e \in { "print_usage_error", "print_help", "print_cluster_arguments",
                             "print_invalid_citation" }

(* C15: a run of main on an invalid command line (invalid combination of  *)
(* query arguments, search without criteria, invalid citation format,     *)
(* malformed numeric argument) ends with a message and a non-zero exit    *)
(* status, and no HTTP request has been issued in that run.               *)
C15_RejectedBeforeNetwork ==
    (call.op = "main" /\ RunOptions.nargs > 0 /\ ~RunOptions.version
        /\ InvalidCommandLine(RunOptions)) =>
        /\ ret # Return(IntV(0))
        /\ UserFacingMessage
        /\ trace = <<>>

----------------------------------------------------------------------------
(* The display order of a record's fields. *)

\* the keys ScholarArticle.__init__ registers
RegisteredKeys == { ArticleKeys[i] : i \in 1..Len(ArticleKeys) }

\* no two fields share an order index, and the registered fields that are
\* present have the index they were registered with
C16_IndicesDistinct ==
    /\ \A j \in DOMAIN record, k \in DOMAIN record :
           j # k => record[j].idx # record[k].idx
    /\ \A k \in DOMAIN record \cap RegisteredKeys : record[k].idx = NewRecord[k].idx

\* an assignment to a key the record does not hold gives it an index above
\* every index in the record
C16_NewIndexAboveAll ==
    \A key \in DOMAIN record' \ DOMAIN record :
        \A k \in DOMAIN record : record'[key].idx > record[k].idx

(* C16: after any sequence of assignments and deletions on a record, a    *)
(* newly added field gets an order index strictly greater than the index  *)
(* of every field then in the record; so no two fields ever share an      *)
(* index, and the registered fields keep their indices.                   *)
C16_NewFieldOrderedLast == []C16_IndicesDistinct /\ [][C16_NewIndexAboveAll]_vars

----------------------------------------------------------------------------
(* Stripping an argument off a URL. *)

\* the arguments of a URL's query string, in order; none when the URL has
\* no query string
ArgsOf(url) ==
    IF Len(Split1(url, "?")) = 2 THEN Split(Split1(url, "?")[2], "&") ELSE <<>>

\* the argument is 'num=...'
IsNum(arg) == StartsWith(arg, <<"n", "u", "m", "=">>)

\* a call of _strip_url_arg('num', url) returned a URL that stripping leaves
\* as it is, that has no num argument, and whose arguments are the other
\* arguments of url in their order
C17_Stripped ==
    call.op = "_strip_url_arg" =>
        LET url == call.args[2].s
            res == ret.val.s
        IN  /\ ret.kind = "ok"
            /\ _strip_url_arg(<<"n", "u", "m">>, res) = res
            /\ \A k \in 1..Len(ArgsOf(res)) : ~IsNum(ArgsOf(res)[k])
            /\ Split1(res, "?")[1] = Split1(url, "?")[1]
            /\ Join(<<"&">>, ArgsOf(res))
                   = Join(<<"&">>, SelectSeq(ArgsOf(url), LAMBDA a : ~IsNum(a)))
            /\ Len(Split1(url, "?")) = 1 => res = url

\* the citation-list links of a block's links row
CitesLinks(block) ==
    SelectSeq(block.links,
              LAMBDA a : a.href # None
                         /\ StartsWith(a.href.s, <<"/","s","c","h","o","l","a","r","?",
                                                   "c","i","t","e","s">>))

\* the values of the slots named 'cites' in a URL's query string
CitesValues(url) ==
    LET slots == SelectSeq(QuerySlots(url),
                           LAMBDA slot : Len(slot) = 2 /\ slot[1] = <<"c","i","t","e","s">>)
    IN  [k \in 1..Len(slots) |-> slots[k][2]]

\* the record of a block with citation-list links holds the stripped URL of
\* the last of them, and as cluster id the value of that URL's cites slot
C17_StoredCitationsUrl ==
    (call.op = "send_query" /\ ret.kind = "ok" /\ Len(querier.articles) = 1
        /\ CitesLinks(ReceivedDoc.blocks[1]) # <<>>) =>
        LET links == CitesLinks(ReceivedDoc.blocks[1])
            href == links[Len(links)].href.s
            art == querier.articles[1]
            ids == CitesValues(art.url_citations.s)
        IN  /\ art.url_citations =
                   StrV(_strip_url_arg(<<"n", "u", "m">>, SCHOLAR_SITE \o href))
            /\ \A k \in 1..Len(ArgsOf(art.url_citations.s)) :
                   ~IsNum(ArgsOf(art.url_citations.s)[k])
            /\ ids # <<>> => art.cluster_id = StrV(ids[Len(ids)])

(* C17: _strip_url_arg('num', url) is idempotent for every URL, its       *)
(* result has no 'num=' argument and keeps all other arguments in their   *)
(* order; for a links-row link whose path starts with '/scholar?cites'    *)
(* the stored citation-list URL is this stripped URL and the cluster id   *)
(* is the value of its cites argument.                                    *)
C17_StripUrlArg == C17_Stripped /\ C17_StoredCitationsUrl

\* a citation-list link with a num argument was parsed: the stored URL has
\* lost it, kept cites and hl, and the cluster id is 7
C17_Witness ==
    /\ call.op = "send_query"
    /\ Len(querier.articles) = 1
    /\ querier.articles[1].cluster_id = StrV(<<"7">>)
    /\ Len(ArgsOf(querier.articles[1].url_citations.s)) = 2
    /\ Len(ArgsOf(CitesLinks(ReceivedDoc.blocks[1])[1].href.s)) = 3

\* a URL with a num argument between others was stripped
C17_WitnessStripped ==
    /\ call.op = "_strip_url_arg"
    /\ ret.val # call.args[2]
    /\ Len(ArgsOf(call.args[2].s)) = 2
    /\ Len(ArgsOf(ret.val.s)) = 1

=============================================================================
